---- MODULE Spec2Model ----
(***************************************************************************)
(* couic: a modal terminal editor for transcribing numbered page files.    *)
(* The model follows src/src/app.rs: the run loop (App::run), the per-mode *)
(* input handlers of AppState, the page operations load / save / next /    *)
(* prev, the reflow split_long_lines and the render step View::ui.         *)
(*                                                                         *)
(* Text is a sequence of one-character strings; a file is such a sequence  *)
(* with line breaks in it. Cursor positions are <<row, col>>, 0-based as   *)
(* in the widget.                                                          *)
(***************************************************************************)
EXTENDS Integers, Sequences, FiniteSets, TLC

VARIABLES
    mode,   \* Data.mode
    text,   \* Data.text : the TextArea (lines, cursor, selection, history, pattern)
    cwd,    \* Data.cwd  : value of the directory prompt
    tot,    \* Data.tot  : number of files counted when the directory was opened
    curr,   \* Data.curr : value of the page-id prompt
    srch,   \* Data.srch : value of the search prompt
    msg,    \* Data.msg  : status message
    fs,     \* the page files on disk: <<directory, file name>> -> bytes
    pc,     \* where App::run is: "input", "done" (loop left), "panic" (aborted)
    entered, \* history variable: the value a prompt held when it was entered
    loaded  \* history variable: <<directory, page id>> of the last successful load

vars == <<mode, text, cwd, tot, curr, srch, msg, fs, pc, entered, loaded>>

(***************************************************************************)
(* Bounds of the model.                                                    *)
(***************************************************************************)
\* characters a prompt accepts beyond the value it was opened with
MaxTyped == 1
\* page ids the navigation keys and the OpenFile prompt are exercised on
MaxPage == 3
\* edits kept in the undo history before the editing keys stop being pressed
MaxEdits == 1

(***************************************************************************)
(* Characters and numbers.                                                 *)
(***************************************************************************)
NL == "\n"
CR == "\r"
SP == " "

DigitChars == <<"0", "1", "2", "3", "4", "5", "6", "7", "8", "9">>

IsDigit(c) == \E i \in 1..10 : DigitChars[i] = c

DigitVal(c) == (CHOOSE i \in 1..10 : DigitChars[i] = c) - 1

(***************************************************************************)
(* A page id is a u32. Its values are kept as canonical decimal digit      *)
(* sequences (no leading zero), so that u32::MAX and the overflow of + 1   *)
(* and - 1 keep their real width.                                          *)
(***************************************************************************)
Zero == <<"0">>

U32MaxDigits == <<"4", "2", "9", "4", "9", "6", "7", "2", "9", "5">>

ParseErr == <<>>

RECURSIVE Canon(_)
Canon(d) == IF Len(d) > 1 /\ Head(d) = "0" THEN Canon(Tail(d)) ELSE d

RECURSIVE LexLeq(_, _)
LexLeq(a, b) ==
    IF a = <<>> THEN TRUE
    ELSE IF DigitVal(Head(a)) < DigitVal(Head(b)) THEN TRUE
    ELSE IF DigitVal(Head(a)) > DigitVal(Head(b)) THEN FALSE
    ELSE LexLeq(Tail(a), Tail(b))

FitsU32(d) ==
    \/ Len(d) < Len(U32MaxDigits)
    \/ Len(d) = Len(U32MaxDigits) /\ LexLeq(d, U32MaxDigits)

\* str::parse::<u32>: an optional "+", then at least one digit and only
\* digits, the value at most u32::MAX; ParseErr otherwise
ParseU32(s) ==
    LET body == IF s # <<>> /\ Head(s) = "+" THEN Tail(s) ELSE s
    IN  IF body = <<>> THEN ParseErr
        ELSE IF \E i \in 1..Len(body) : ~IsDigit(body[i]) THEN ParseErr
        ELSE IF ~FitsU32(Canon(body)) THEN ParseErr
        ELSE Canon(body)

RECURSIVE Inc(_)
Inc(d) ==
    IF d = <<>> THEN <<"1">>
    ELSE LET n == Len(d)
             last == DigitVal(d[n])
         IN  IF last < 9 THEN Append(SubSeq(d, 1, n - 1), DigitChars[last + 2])
             ELSE Append(Inc(SubSeq(d, 1, n - 1)), "0")

RECURSIVE DecRaw(_)
DecRaw(d) ==
    LET n == Len(d)
        last == DigitVal(d[n])
    IN  IF last > 0 THEN Append(SubSeq(d, 1, n - 1), DigitChars[last])
        ELSE Append(DecRaw(SubSeq(d, 1, n - 1)), "9")

\* d - 1 for d > 0
Dec(d) == Canon(DecRaw(d))

\* the value of a one-digit id, and more than any bound otherwise
SmallVal(d) == IF Len(d) = 1 THEN DigitVal(d[1]) ELSE 10

\* format!("{x:03}"): decimal, zero-padded to at least three digits
Fmt03(x) ==
    IF Len(x) >= 3 THEN x
    ELSE IF Len(x) = 2 THEN <<"0">> \o x
    ELSE <<"0", "0">> \o x

(***************************************************************************)
(* Lines and bytes.                                                        *)
(***************************************************************************)
\* lines.join("\n")
RECURSIVE JoinLines(_)
JoinLines(ls) ==
    IF ls = <<>> THEN <<>>
    ELSE IF Len(ls) = 1 THEN ls[1]
    ELSE ls[1] \o <<NL>> \o JoinLines(Tail(ls))

FirstNL(s) ==
    IF \E i \in 1..Len(s) : s[i] = NL
    THEN CHOOSE i \in 1..Len(s) : s[i] = NL /\ \A j \in 1..(i - 1) : s[j] # NL
    ELSE 0

\* the pieces of s between its line breaks (one more piece than breaks)
RECURSIVE SplitNL(_)
SplitNL(s) ==
    LET i == FirstNL(s)
    IN  IF i = 0 THEN <<s>>
        ELSE <<SubSeq(s, 1, i - 1)>> \o SplitNL(SubSeq(s, i + 1, Len(s)))

StripCR(l) ==
    IF l # <<>> /\ l[Len(l)] = CR THEN SubSeq(l, 1, Len(l) - 1) ELSE l

\* the line iterators of the standard library (BufRead::lines, str::lines):
\* a line ends at "\n" or "\r\n", the ending is not part of the line, and
\* what follows the last line break is a line only when it is not empty
LinesOf(s) ==
    LET p == SplitNL(s)
        n == Len(p)
        k == IF p[n] = <<>> THEN n - 1 ELSE n
    IN  [i \in 1..k |-> IF i < n THEN StripCR(p[i]) ELSE p[i]]

\* [^\n\S] : a whitespace character other than the line break
Hws(c) == c \in {SP, CR, "\t"}

\* {3,} of LONG_LINES
MinRun == 3

RunLen(s) ==
    IF \E i \in 1..Len(s) : ~Hws(s[i])
    THEN (CHOOSE i \in 1..Len(s) : ~Hws(s[i]) /\ \A j \in 1..(i - 1) : Hws(s[j])) - 1
    ELSE Len(s)

\* LONG_LINES.replace_all(text, "\n")
RECURSIVE ReplaceRuns(_)
ReplaceRuns(s) ==
    IF s = <<>> THEN <<>>
    ELSE IF ~Hws(Head(s)) THEN <<Head(s)>> \o ReplaceRuns(Tail(s))
    ELSE LET n == RunLen(s)
             rest == ReplaceRuns(SubSeq(s, n + 1, Len(s)))
         IN  IF n >= MinRun THEN <<NL>> \o rest ELSE SubSeq(s, 1, n) \o rest

(***************************************************************************)
(* Search patterns. A pattern is the text of a regular expression. The     *)
(* model knows the syntax the default pattern uses: alternatives separated *)
(* by "|", each a sequence of atoms (a literal, an escaped character, the  *)
(* digit class \d), an atom possibly followed by "+", and groups only as   *)
(* far as their nesting: an unclosed or unopened group does not compile.   *)
(***************************************************************************)
BS == "\\"

\* r"\d+|f\.|fol|p\.|page|scan"
DefaultSearch ==
    <<BS, "d", "+", "|", "f", BS, ".", "|", "f", "o", "l", "|",
      "p", BS, ".", "|", "p", "a", "g", "e", "|", "s", "c", "a", "n">>

RECURSIVE GroupsOk(_, _)
GroupsOk(s, depth) ==
    IF s = <<>> THEN depth = 0
    ELSE IF Head(s) = BS THEN Len(s) >= 2 /\ GroupsOk(SubSeq(s, 3, Len(s)), depth)
    ELSE IF Head(s) = "(" THEN GroupsOk(Tail(s), depth + 1)
    ELSE IF Head(s) = ")" THEN depth > 0 /\ GroupsOk(Tail(s), depth - 1)
    ELSE GroupsOk(Tail(s), depth)

\* Regex::new(query).is_ok()
RegexCompiles(q) == GroupsOk(q, 0)

\* the atoms of a pattern text: [alt, cls, ch, plus]; "|" starts a new
\* alternative
RECURSIVE Atoms(_, _)
Atoms(s, alt) ==
    IF s = <<>> THEN <<>>
    ELSE IF Head(s) = "|" THEN Atoms(Tail(s), alt + 1)
    ELSE LET esc == Head(s) = BS
             c == IF esc THEN s[2] ELSE s[1]
             rest == SubSeq(s, IF esc THEN 3 ELSE 2, Len(s))
             plus == rest # <<>> /\ Head(rest) = "+"
         IN  <<[alt |-> alt, digit |-> esc /\ c = "d", ch |-> c, plus |-> plus]>>
                 \o Atoms(IF plus THEN Tail(rest) ELSE rest, alt)

AtomFits(a, c) == IF a.digit THEN IsDigit(c) ELSE a.ch = c

\* the end of a match of atoms as[k..] of one alternative at column i of
\* line (1-based), or 0 when there is none; "+" is greedy
RECURSIVE MatchEnd(_, _, _, _)
MatchEnd(as, k, line, i) ==
    IF k > Len(as) \/ as[k].alt # as[1].alt THEN i
    ELSE IF i > Len(line) \/ ~AtomFits(as[k], line[i]) THEN 0
    ELSE IF as[k].plus /\ i < Len(line) /\ AtomFits(as[k], line[i + 1])
         THEN MatchEnd(as, k, line, i + 1)
    ELSE MatchEnd(as, k + 1, line, i + 1)

\* whether atom k opens an alternative
OpensAlt(as, k) == k = 1 \/ as[k - 1].alt # as[k].alt

\* e when it is a match end, the other value otherwise
OrElse(e, other) == IF e # 0 THEN e ELSE other

\* the end (the column after it, 1-based) of the match at column i of the
\* first alternative from atom k on that matches there, or 0
RECURSIVE AltScan(_, _, _, _)
AltScan(as, k, line, i) ==
    IF k > Len(as) THEN 0
    ELSE IF ~OpensAlt(as, k) THEN AltScan(as, k + 1, line, i)
    ELSE OrElse(MatchEnd(SubSeq(as, k, Len(as)), 1, line, i),
                AltScan(as, k + 1, line, i))

MatchEndAt(q, line, i) == AltScan(Atoms(q, 1), 1, line, i)

\* Regex::find_at(line, from).map(|m| m.start()): the first column (0-based)
\* at or after from where the pattern matches, or -1
RECURSIVE FindAt(_, _, _)
FindAt(q, line, from) ==
    IF from >= Len(line) THEN -1
    ELSE IF MatchEndAt(q, line, from + 1) # 0 THEN from
    ELSE FindAt(q, line, from + 1)

\* the starts (0-based) of the successive non-overlapping matches in
\* line[from + 1 ..], as Regex::find_iter yields them
RECURSIVE FindIter(_, _, _)
IterFrom(q, line, c) ==
    IF c = -1 THEN <<>>
    ELSE <<c>> \o FindIter(q, line, MatchEndAt(q, line, c + 1) - 1)

FindIter(q, line, from) == IterFrom(q, line, FindAt(q, line, from))

LastOr(m) == IF m = <<>> THEN -1 ELSE m[Len(m)]

\* find_iter(..).last() over the first upto characters of line, or -1
FindLast(q, line, upto) == LastOr(FindIter(q, SubSeq(line, 1, upto), 0))

(***************************************************************************)
(* The text widget (tui_textarea::TextArea) as far as the editor uses it.  *)
(***************************************************************************)
NoSel == <<>>

NoPat == <<>>

\* TextArea::new(lines): a buffer always has at least one line
NewTextArea(lines) ==
    [lines |-> IF lines = <<>> THEN <<(<<>>)>> ELSE lines,
     cursor |-> <<0, 0>>,
     sel |-> NoSel,
     edits |-> <<>>,
     index |-> 0,
     pat |-> NoPat]

\* TextArea::set_search_pattern(query).is_ok()
PatternOk(t, q) == q = t.pat \/ q = <<>> \/ RegexCompiles(q)

\* TextArea::set_search_pattern(query), when it is Ok
SetPattern(t, q) == [t EXCEPT !.pat = q]

Row(t) == t.cursor[1]

Col(t) == t.cursor[2]

LineAt(t, row) == t.lines[row + 1]

NRows(t) == Len(t.lines)

FitCol(col, line) == IF col < Len(line) THEN col ELSE Len(line)

CharKind(c) ==
    IF c \in {SP, CR, NL, "\t"} THEN "space"
    ELSE IF c \in {"#", ".", "(", ")", "|", "+", BS, "/", "*", "$", "^"} THEN "punct"
    ELSE "other"

\* word::find_word_start_forward(line, col), or -1
WordStartForward(line, col) ==
    LET hit(j) == /\ CharKind(line[j]) # "space"
                  /\ CharKind(line[j - 1]) # CharKind(line[j])
        js == {j \in (col + 2)..Len(line) : hit(j)}
    IN  IF js = {} THEN -1
        ELSE (CHOOSE j \in js : \A k \in js : j <= k) - 1

\* word::find_word_start_backward(line, col), or -1
WordStartBackward(line, col) ==
    LET c0 == FitCol(col, line)
        hit(j) == /\ CharKind(line[j + 1]) # "space"
                  /\ CharKind(line[j]) # CharKind(line[j + 1])
        js == {j \in 1..(c0 - 1) : hit(j)}
    IN  IF c0 = 0 THEN -1
        ELSE IF js # {} THEN CHOOSE j \in js : \A k \in js : j >= k
        ELSE IF CharKind(line[1]) # "space" THEN 0
        ELSE -1

\* the row ParagraphForward goes to: the first non-empty line after an
\* empty one below the cursor, or the last row
ParaForwardRow(t) ==
    LET n == NRows(t)
        rs == {r \in (Row(t) + 1)..(n - 1) :
                   LineAt(t, r) # <<>> /\ LineAt(t, r - 1) = <<>>}
    IN  IF rs = {} THEN n - 1 ELSE CHOOSE r \in rs : \A q \in rs : r <= q

\* the row ParagraphBack goes to, for a cursor below row 0
ParaBackRow(t) ==
    LET rs == {r \in 0..(Row(t) - 2) :
                   LineAt(t, r) = <<>> /\ LineAt(t, r + 1) # <<>>}
    IN  IF rs = {} THEN 0 ELSE (CHOOSE r \in rs : \A q \in rs : r >= q) + 1

\* CursorMove::next_cursor: where the movement takes the cursor (the cursor
\* itself where the widget computes None)
NextCursor(t, m) ==
    LET row == Row(t)
        col == Col(t)
        line == LineAt(t, row)
        n == NRows(t)
    IN  CASE m = "Forward" ->
                 IF col >= Len(line)
                 THEN (IF row + 1 < n THEN <<row + 1, 0>> ELSE t.cursor)
                 ELSE <<row, col + 1>>
          [] m = "Back" ->
                 IF col = 0
                 THEN (IF row = 0 THEN t.cursor
                       ELSE <<row - 1, Len(LineAt(t, row - 1))>>)
                 ELSE <<row, col - 1>>
          [] m = "Up" ->
                 IF row = 0 THEN t.cursor
                 ELSE <<row - 1, FitCol(col, LineAt(t, row - 1))>>
          [] m = "Down" ->
                 IF row + 1 >= n THEN t.cursor
                 ELSE <<row + 1, FitCol(col, LineAt(t, row + 1))>>
          [] m = "Head" -> <<row, 0>>
          [] m = "End" -> <<row, Len(line)>>
          [] m = "WordForward" ->
                 LET c == WordStartForward(line, col)
                 IN  IF c # -1 THEN <<row, c>>
                     ELSE IF row + 1 < n THEN <<row + 1, 0>>
                     ELSE <<row, Len(line)>>
          [] m = "WordBack" ->
                 LET c == WordStartBackward(line, col)
                 IN  IF c # -1 THEN <<row, c>>
                     ELSE IF row > 0 THEN <<row - 1, Len(LineAt(t, row - 1))>>
                     ELSE <<row, 0>>
          [] m = "ParagraphForward" ->
                 LET r == ParaForwardRow(t)
                 IN  <<r, FitCol(col, LineAt(t, r))>>
          [] m = "ParagraphBack" ->
                 IF row = 0 THEN t.cursor
                 ELSE LET r == ParaBackRow(t)
                      IN  <<r, FitCol(col, LineAt(t, r))>>

\* TextArea::move_cursor(m): an active selection stays active, its start
\* fixed, and so extends to the new cursor
MoveCursor(t, m) == [t EXCEPT !.cursor = NextCursor(t, m)]

\* TextArea::start_selection()
StartSelection(t) == [t EXCEPT !.sel = t.cursor]

\* the offset of a position in the joined text, and back
RECURSIVE OffsetOf(_, _)
OffsetOf(lines, pos) ==
    IF pos[1] = 0 THEN pos[2]
    ELSE Len(Head(lines)) + 1 + OffsetOf(Tail(lines), <<pos[1] - 1, pos[2]>>)

RECURSIVE PosOf(_, _, _)
PosOf(lines, off, row) ==
    IF off <= Len(Head(lines)) THEN <<row, off>>
    ELSE PosOf(Tail(lines), off - Len(Head(lines)) - 1, row + 1)

PosLeq(a, b) == a[1] < b[1] \/ (a[1] = b[1] /\ a[2] <= b[2])

Snapshot(t) == [lines |-> t.lines, cursor |-> t.cursor]

\* History::push: what was undone is dropped, the edit is appended
PushEdit(t, before) ==
    [t EXCEPT !.edits = Append(SubSeq(t.edits, 1, t.index),
                               [before |-> before, after |-> Snapshot(t)]),
              !.index = t.index + 1]

\* delete_range(s, e): the text between two positions goes, the cursor
\* lands on the first, one edit is recorded
DeleteRange(t, s, e) ==
    LET flat == JoinLines(t.lines)
        a == OffsetOf(t.lines, s)
        b == OffsetOf(t.lines, e)
        cut == SubSeq(flat, 1, a) \o SubSeq(flat, b + 1, Len(flat))
    IN  PushEdit([t EXCEPT !.lines = SplitNL(cut), !.cursor = s], Snapshot(t))

\* delete_selection: the selection is taken (cleared) in any case; a
\* non-empty one is deleted
DeleteSelection(t) ==
    LET u == [t EXCEPT !.sel = NoSel]
    IN  IF t.sel = NoSel \/ t.sel = t.cursor THEN u
        ELSE IF PosLeq(t.sel, t.cursor) THEN DeleteRange(u, t.sel, t.cursor)
        ELSE DeleteRange(u, t.cursor, t.sel)

\* TextArea::cut()
Cut(t) == DeleteSelection(t)

\* insertion of a piece of text (which may hold line breaks) at the cursor
InsertAt(t, piece) ==
    LET flat == JoinLines(t.lines)
        a == OffsetOf(t.lines, t.cursor)
        new == SplitNL(SubSeq(flat, 1, a) \o piece \o SubSeq(flat, a + 1, Len(flat)))
    IN  PushEdit([t EXCEPT !.lines = new,
                           !.cursor = PosOf(new, a + Len(piece), 0)],
                 Snapshot(t))

\* TextArea::insert_str(s), TextArea::insert_char(c), insert_newline: a
\* selection is deleted first
InsertStr(t, piece) ==
    IF piece = <<>> THEN DeleteSelection(t)
    ELSE InsertAt(DeleteSelection(t), piece)

\* TextArea::undo() / redo(): nothing when there is nothing to undo / redo;
\* otherwise the selection is cancelled as well
Undo(t) ==
    IF t.index = 0 THEN t
    ELSE LET e == t.edits[t.index]
         IN  [t EXCEPT !.lines = e.before.lines, !.cursor = e.before.cursor,
                       !.index = t.index - 1, !.sel = NoSel]

Redo(t) ==
    IF t.index >= Len(t.edits) THEN t
    ELSE LET e == t.edits[t.index + 1]
         IN  [t EXCEPT !.lines = e.after.lines, !.cursor = e.after.cursor,
                       !.index = t.index + 1, !.sel = NoSel]

\* the match of row r: the first one, or the last one, as a column or -1
RowCol(t, r, last) ==
    IF last THEN FindLast(t.pat, LineAt(t, r), Len(LineAt(t, r)))
    ELSE FindAt(t.pat, LineAt(t, r), 0)

\* the rows r, r + step, .. up to row stop: the first of them whose line has
\* a match, with the column of the match, or NoSel
RECURSIVE RowScan(_, _, _, _, _)
RowHit(t, r, c, step, stop, last) ==
    IF c # -1 THEN <<r, c>>
    ELSE IF r = stop THEN NoSel
    ELSE RowScan(t, r + step, step, stop, last)

RowScan(t, r, step, stop, last) ==
    RowHit(t, r, RowCol(t, r, last), step, stop, last)

\* the first value among a, b, c that is a position; d when none is
FirstPos(a, b, c, d) ==
    IF a # NoSel THEN a ELSE IF b # NoSel THEN b ELSE IF c # NoSel THEN c ELSE d

AsPos(row, col) == IF col = -1 THEN NoSel ELSE <<row, col>>

UpTo(col, limit) == IF col <= limit THEN col ELSE -1

\* Search::forward(lines, cursor, false): after the cursor in its line, then
\* the lines below, then the lines above from the top, then the cursor's
\* line from its start up to the cursor
SearchForwardPos(t) ==
    IF t.pat = NoPat THEN NoSel
    ELSE FirstPos(
        AsPos(Row(t), IF Col(t) + 1 < Len(LineAt(t, Row(t)))
                      THEN FindAt(t.pat, LineAt(t, Row(t)), Col(t) + 1) ELSE -1),
        IF Row(t) + 1 < NRows(t)
            THEN RowScan(t, Row(t) + 1, 1, NRows(t) - 1, FALSE) ELSE NoSel,
        IF Row(t) > 0 THEN RowScan(t, 0, 1, Row(t) - 1, FALSE) ELSE NoSel,
        AsPos(Row(t), UpTo(FindAt(t.pat, LineAt(t, Row(t)), 0), Col(t))))

\* Search::back(lines, cursor, false): before the cursor in its line, then
\* the lines above, then the lines below from the bottom, then the cursor's
\* line from the cursor on
SearchBackPos(t) ==
    IF t.pat = NoPat THEN NoSel
    ELSE FirstPos(
        AsPos(Row(t), IF Col(t) > 0 /\ Col(t) - 1 < Len(LineAt(t, Row(t)))
                      THEN FindLast(t.pat, LineAt(t, Row(t)), Col(t) - 1) ELSE -1),
        IF Row(t) > 0 THEN RowScan(t, Row(t) - 1, -1, 0, TRUE) ELSE NoSel,
        IF Row(t) + 1 < NRows(t)
            THEN RowScan(t, NRows(t) - 1, -1, Row(t) + 1, TRUE) ELSE NoSel,
        AsPos(Row(t), IF Col(t) < Len(LineAt(t, Row(t)))
                      THEN LastOr(FindIter(t.pat, LineAt(t, Row(t)), Col(t))) ELSE -1))

MovedTo(t, pos) == IF pos = NoSel THEN t ELSE [t EXCEPT !.cursor = pos]

\* TextArea::search_forward(false) / search_back(false): the cursor moves to
\* the match, if any; the returned flag is dropped by the caller
SearchForward(t) == MovedTo(t, SearchForwardPos(t))

SearchBack(t) == MovedTo(t, SearchBackPos(t))

(***************************************************************************)
(* The editor's data (struct Data) and the page files.                     *)
(***************************************************************************)
Data ==
    [mode |-> mode, text |-> text, cwd |-> cwd, tot |-> tot,
     curr |-> curr, srch |-> srch, msg |-> msg]

\* the directory the program is started in, and a second directory with pages
StartDir == <<"a">>

OtherDir == <<"a", "b">>

\* the file <dir>/<name>.txt, name being the three-digit page token
Path(dir, name) == <<dir, name>>

PageName(n) == Fmt03(<<DigitChars[n + 1]>>)

\* the pages on disk at startup: 000..002 in the start directory, 000 in the
\* other one
InitFiles ==
    (Path(StartDir, PageName(0)) :> <<"f", ".", SP, "1", NL>>)
    @@ (Path(StartDir, PageName(1)) :> <<"a", SP, SP, SP, "2">>)
    @@ (Path(StartDir, PageName(2)) :> <<"p", NL, NL>>)
    @@ (Path(OtherDir, PageName(0)) :> <<"b", CR, NL, "3">>)

\* read_dir(cwd): the number of regular files in the directory, or -1 when
\* the directory cannot be read
CountFiles(f, dir) ==
    IF \E p \in DOMAIN f : p[1] = dir
    THEN Cardinality({p \in DOMAIN f : p[1] = dir})
    ELSE -1

\* a handler's outcome: the data, the files, and how it returned: "ok",
\* an error ("io", "parse", "regex") or "panic" (an unwrap that failed, an
\* arithmetic overflow in a build that checks it)
Outcome(d, f, res) == [d |-> d, f |-> f, res |-> res]

\* fn textarea(lines, search): the unwrap of set_search_pattern fails when
\* the search text does not compile
textarea_panics(search) == ~PatternOk(NewTextArea(<<>>), search)

textarea(lines, search) == SetPattern(NewTextArea(lines), search)

\* a faulty load: the page id is set only once the file is open
load_late_id(d, f, x) ==
    IF Path(d.cwd, Fmt03(x)) \notin DOMAIN f THEN Outcome(d, f, "io")
    ELSE IF textarea_panics(d.srch) THEN Outcome(d, f, "panic")
    ELSE Outcome([d EXCEPT !.curr = Fmt03(x),
                           !.text = textarea(LinesOf(f[Path(d.cwd, Fmt03(x))]), d.srch)],
                 f, "ok")

\* AppState::load
load(d, f, x) ==
    LET named == [d EXCEPT !.curr = Fmt03(x)]
        fname == Path(d.cwd, Fmt03(x))
    IN  IF fname \notin DOMAIN f THEN Outcome(named, f, "io")
        ELSE IF textarea_panics(d.srch) THEN Outcome(named, f, "panic")
        ELSE Outcome([named EXCEPT !.text = textarea(LinesOf(f[fname]), d.srch)],
                     f, "ok")

\* AppState::save
save(d, f) ==
    LET x == ParseU32(d.curr)
        fname == Path(d.cwd, Fmt03(x))
    IN  IF x = ParseErr THEN Outcome(d, f, "parse")
        ELSE IF fname \notin DOMAIN f THEN Outcome(d, f, "io")
        ELSE Outcome(d, [f EXCEPT ![fname] = JoinLines(d.text.lines)], "ok")

\* AppState::next; wraps tells whether the build wraps on overflow (release)
\* or panics (debug)
next(d, f, wraps) ==
    LET c == ParseU32(d.curr)
    IN  IF c = ParseErr THEN Outcome(d, f, "parse")
        ELSE IF c = U32MaxDigits
             THEN (IF wraps THEN load(d, f, Zero) ELSE Outcome(d, f, "panic"))
        ELSE load(d, f, Inc(c))

\* AppState::prev
prev(d, f, wraps) ==
    LET c == ParseU32(d.curr)
    IN  IF c = ParseErr THEN Outcome(d, f, "parse")
        ELSE IF c = Zero
             THEN (IF wraps THEN load(d, f, U32MaxDigits) ELSE Outcome(d, f, "panic"))
        ELSE load(d, f, Dec(c))

\* a faulty split_long_lines: the lines are replaced inside the document
\* at hand, which keeps its cursor, selection and history
split_long_lines_in_place(d, f) ==
    Outcome([d EXCEPT !.text.lines =
                 IF LinesOf(ReplaceRuns(JoinLines(d.text.lines))) = <<>> THEN <<(<<>>)>>
                 ELSE LinesOf(ReplaceRuns(JoinLines(d.text.lines)))],
            f, "ok")

\* AppState::split_long_lines
split_long_lines(d, f) ==
    LET joined == JoinLines(d.text.lines)
        lines == LinesOf(ReplaceRuns(joined))
    IN  IF textarea_panics(d.srch) THEN Outcome(d, f, "panic")
        ELSE Outcome([d EXCEPT !.text = textarea(lines, d.srch)], f, "ok")

(***************************************************************************)
(* Input events. A key is named by a string: one character for a character *)
(* key, a longer name for the others ("C-" is Ctrl, "S-" is Shift).        *)
(***************************************************************************)
SpecialKeys ==
    {"Esc", "Enter", "S-Enter", "Backspace", "C-s", "C-u", "C-d",
     "C-Left", "C-Right", "Left", "Right", "Up", "Down",
     "Home", "End", "PageUp", "PageDown"}

IsCharKey(k) == k \notin SpecialKeys

\* TextState::handle_key_event of the prompt widget, the cursor being at the
\* end of the value (move_end() when the prompt is entered)
handle_key_event(value, k) ==
    IF IsCharKey(k) THEN Append(value, k)
    ELSE IF k = "Backspace" /\ value # <<>> THEN SubSeq(value, 1, Len(value) - 1)
    ELSE value

\* the CursorMove a key stands for in AppState::movement, or "none"
MoveOf(k) ==
    CASE k \in {"C-Right", "w"} -> "WordForward"
      [] k \in {"C-Left", "b"} -> "WordBack"
      [] k \in {"C-u", "PageUp"} -> "ParagraphBack"
      [] k \in {"C-d", "PageDown"} -> "ParagraphForward"
      [] k \in {"^", "Home"} -> "Head"
      [] k \in {"$", "End"} -> "End"
      [] k = "Left" -> "Back"
      [] k = "Right" -> "Forward"
      [] k = "Up" -> "Up"
      [] k = "Down" -> "Down"
      [] OTHER -> "none"

\* AppState::movement: the key is consumed when it is a movement key
movement(d, k) ==
    IF MoveOf(k) = "none" THEN d
    ELSE [d EXCEPT !.text = MoveCursor(d.text, MoveOf(k))]

\* a faulty open_input: Enter leaves the prompt before the directory is read
open_input_leaves(d, f, k) ==
    IF k = "Esc" THEN Outcome([d EXCEPT !.mode = "Command"], f, "ok")
    ELSE IF k \in {"Enter", "S-Enter"}
    THEN IF CountFiles(f, d.cwd) = -1
         THEN Outcome([d EXCEPT !.mode = "Command"], f, "io")
         ELSE load([d EXCEPT !.tot = CountFiles(f, d.cwd), !.mode = "Command"], f, Zero)
    ELSE Outcome([d EXCEPT !.cwd = handle_key_event(d.cwd, k)], f, "ok")

\* AppState::open_input
open_input(d, f, k) ==
    IF k = "Esc" THEN Outcome([d EXCEPT !.mode = "Command"], f, "ok")
    ELSE IF k \in {"Enter", "S-Enter"}
    THEN LET n == CountFiles(f, d.cwd)
             r == load([d EXCEPT !.tot = n], f, Zero)
         IN  IF n = -1 THEN Outcome(d, f, "io")
             ELSE IF r.res # "ok" THEN r
             ELSE Outcome([r.d EXCEPT !.mode = "Command"], r.f, "ok")
    ELSE Outcome([d EXCEPT !.cwd = handle_key_event(d.cwd, k)], f, "ok")

\* AppState::curr_input
curr_input(d, f, k) ==
    IF k = "Esc" THEN Outcome([d EXCEPT !.mode = "Command"], f, "ok")
    ELSE IF k \in {"Enter", "S-Enter"}
    THEN LET x == ParseU32(d.curr)
             r == load(d, f, x)
         IN  IF x = ParseErr THEN Outcome(d, f, "parse")
             ELSE IF r.res # "ok" THEN r
             ELSE Outcome([r.d EXCEPT !.mode = "Command"], r.f, "ok")
    ELSE Outcome([d EXCEPT !.curr = handle_key_event(d.curr, k)], f, "ok")

\* AppState::input_input: every key but Esc goes to TextArea::input, of
\* which the character keys and Enter are modelled
input_input(d, f, k) ==
    IF k = "Esc" THEN Outcome([d EXCEPT !.mode = "Command"], f, "ok")
    ELSE IF IsCharKey(k) THEN Outcome([d EXCEPT !.text = InsertStr(d.text, <<k>>)], f, "ok")
    ELSE IF k = "Enter" THEN Outcome([d EXCEPT !.text = InsertStr(d.text, <<NL>>)], f, "ok")
    ELSE Outcome(d, f, "ok")

\* a faulty select_input: 'x' leaves the selection mode without cutting
select_input_no_cut(d, f, k) ==
    IF MoveOf(k) # "none" THEN Outcome(movement(d, k), f, "ok")
    ELSE IF k \in {"Esc", "x"} THEN Outcome([d EXCEPT !.mode = "Command"], f, "ok")
    ELSE Outcome(d, f, "ok")

\* AppState::select_input
select_input(d, f, k) ==
    IF MoveOf(k) # "none" THEN Outcome(movement(d, k), f, "ok")
    ELSE IF k = "Esc" THEN Outcome([d EXCEPT !.mode = "Command"], f, "ok")
    ELSE IF k = "x"
    THEN Outcome([d EXCEPT !.text = Cut(d.text), !.mode = "Command"], f, "ok")
    ELSE Outcome(d, f, "ok")

\* AppState::search_input
search_input(d, f, k) ==
    IF k = "Esc" THEN Outcome([d EXCEPT !.mode = "Command"], f, "ok")
    ELSE IF k \in {"Enter", "S-Enter"}
    THEN IF ~PatternOk(d.text, d.srch) THEN Outcome(d, f, "regex")
         ELSE LET t == SetPattern(d.text, d.srch)
              IN  Outcome([d EXCEPT !.text = IF k = "S-Enter" THEN SearchBack(t)
                                             ELSE SearchForward(t)],
                          f, "ok")
    ELSE Outcome([d EXCEPT !.srch = handle_key_event(d.srch, k)], f, "ok")

\* AppState::history_input
history_input(d, f, k) ==
    IF k = "Esc" THEN Outcome([d EXCEPT !.mode = "Command"], f, "ok")
    ELSE IF k = "u" THEN Outcome([d EXCEPT !.text = Undo(d.text)], f, "ok")
    ELSE IF k = "r" THEN Outcome([d EXCEPT !.text = Redo(d.text)], f, "ok")
    ELSE Outcome(d, f, "ok")

CopiedMsg == "Filed Copied to Clipboard"

\* AppState::command_input
command_input(d, f, k, wraps) ==
    IF MoveOf(k) # "none" THEN Outcome(movement(d, k), f, "ok")
    ELSE CASE k = "q" -> Outcome([d EXCEPT !.mode = "Quit"], f, "ok")
           [] k = "o" -> Outcome([d EXCEPT !.mode = "OpenDir"], f, "ok")
           [] k = "f" -> Outcome([d EXCEPT !.mode = "OpenFile"], f, "ok")
           [] k = "i" -> Outcome([d EXCEPT !.mode = "Input"], f, "ok")
           [] k = "h" -> Outcome([d EXCEPT !.mode = "History"], f, "ok")
           [] k = "/" -> Outcome([d EXCEPT !.mode = "Search"], f, "ok")
           [] k = "*" -> Outcome([d EXCEPT !.msg = CopiedMsg], f, "ok")
           [] k = "n" -> next(d, f, wraps)
           [] k = "p" -> prev(d, f, wraps)
           [] k = "C-s" -> save(d, f)
           [] k = "#" -> Outcome([d EXCEPT !.text = InsertStr(d.text, <<"#", "#", "#">>)],
                                 f, "ok")
           [] k = "l" -> split_long_lines(d, f)
           [] k = SP -> Outcome([d EXCEPT !.mode = "Selection",
                                         !.text = StartSelection(d.text)], f, "ok")
           [] OTHER -> Outcome(d, f, "ok")

\* AppState::quit_input
quit_input(d, f, k) == Outcome(d, f, "ok")

\* a faulty dispatch: Esc in Command quits, as 'q' does
input_esc_quits(d, f, k, wraps) ==
    IF d.mode = "Command" /\ k = "Esc"
    THEN command_input(d, f, "q", wraps)
    ELSE CASE d.mode = "OpenDir" -> open_input(d, f, k)
           [] d.mode = "OpenFile" -> curr_input(d, f, k)
           [] d.mode = "Input" -> input_input(d, f, k)
           [] d.mode = "Selection" -> select_input(d, f, k)
           [] d.mode = "Search" -> search_input(d, f, k)
           [] d.mode = "History" -> history_input(d, f, k)
           [] d.mode = "Command" -> command_input(d, f, k, wraps)
           [] d.mode = "Quit" -> quit_input(d, f, k)

\* AppState::input: the dispatch on the mode
input(d, f, k, wraps) ==
    CASE d.mode = "OpenDir" -> open_input(d, f, k)
      [] d.mode = "OpenFile" -> curr_input(d, f, k)
      [] d.mode = "Input" -> input_input(d, f, k)
      [] d.mode = "Selection" -> select_input(d, f, k)
      [] d.mode = "Search" -> search_input(d, f, k)
      [] d.mode = "History" -> history_input(d, f, k)
      [] d.mode = "Command" -> command_input(d, f, k, wraps)
      [] d.mode = "Quit" -> quit_input(d, f, k)

\* errors.rs: the text an error is displayed with starts with its kind
ErrText(res) ==
    CASE res = "io" -> "io error"
      [] res = "parse" -> "not an int"
      [] res = "regex" -> "regex error"

\* View::ui: outside the three prompt modes and with no message to show, the
\* progress gauge is drawn from the parsed page id, and the parse is unwrapped.
\* The sum 1 + cur that follows overflows at u32::MAX only, a page id that
\* within the bounds is reached only by a wrapping prev(), in a build where
\* the sum wraps as well. What the gauge widget does with the ratio is not
\* part of the model.
ui_panics(d) ==
    /\ d.mode \notin {"OpenDir", "OpenFile", "Search"}
    /\ d.msg = ""
    /\ ParseU32(d.curr) = ParseErr

(***************************************************************************)
(* The run loop. One step is one turn of App::run from the read of an      *)
(* event on: the dispatch, the status message, the test for Quit and, when *)
(* the loop goes on, the draw that opens the next turn.                    *)
(***************************************************************************)
\* App::run, the loop body after the dispatch returned outcome o
run(o) ==
    IF o.res = "panic" THEN [d |-> o.d, f |-> o.f, pc |-> "panic"]
    ELSE LET shown == [o.d EXCEPT !.msg = IF o.res = "ok" THEN ""
                                          ELSE ErrText(o.res)]
         IN  [d |-> shown, f |-> o.f,
              pc |-> IF shown.mode = "Quit" THEN "done"
                     ELSE IF ui_panics(shown) THEN "panic"
                     ELSE "input"]

Becomes(n) ==
    /\ mode' = n.d.mode
    /\ text' = n.d.text
    /\ cwd' = n.d.cwd
    /\ tot' = n.d.tot
    /\ curr' = n.d.curr
    /\ srch' = n.d.srch
    /\ msg' = n.d.msg
    /\ fs' = n.f
    /\ pc' = n.pc

\* the characters typed into the prompts and still in them
Typed ==
    (Len(cwd) - Len(StartDir)) + (Len(srch) - Len(DefaultSearch))
        + (IF Len(curr) > 3 THEN Len(curr) - 3 ELSE 0)

\* the page id a key asks to load, when it asks for one within u32
Asked(k) ==
    LET c == ParseU32(curr)
    IN  IF c = ParseErr THEN ParseErr
        ELSE IF mode = "OpenFile" /\ k = "Enter" THEN c
        ELSE IF mode = "Command" /\ k = "n" /\ c # U32MaxDigits THEN Inc(c)
        ELSE IF mode = "Command" /\ k = "p" /\ c # Zero THEN Dec(c)
        ELSE ParseErr

\* the keys the user presses within the bounds of the model: a prompt takes
\* a character while fewer than MaxTyped are pending, pages are asked for up
\* to MaxPage (and at the two ends of u32), the text is edited while fewer
\* than MaxEdits edits are recorded
Pressed(k) ==
    /\ (mode \in {"OpenDir", "OpenFile", "Search"} /\ IsCharKey(k))
           => Typed < MaxTyped
    /\ Asked(k) # ParseErr => SmallVal(Asked(k)) <= MaxPage
    /\ (\/ mode = "Input" /\ k # "Esc"
        \/ mode = "Selection" /\ k = "x"
        \/ mode = "Command" /\ k = "#")
           => text.index < MaxEdits

\* the history variable follows the prompts: set on 'o' and 'f', kept
\* while the prompt is open, cleared when it is left
Entered(k) ==
    IF mode = "Command" /\ k = "f" THEN curr
    ELSE IF mode = "Command" /\ k = "o" THEN cwd
    ELSE IF mode' \in {"OpenDir", "OpenFile"} THEN entered
    ELSE <<>>

\* the history variable follows load(): set when a key's load returns Ok
Loaded(k, wraps) ==
    IF /\ \/ mode = "Command" /\ k \in {"n", "p"}
          \/ mode \in {"OpenFile", "OpenDir"} /\ k \in {"Enter", "S-Enter"}
       /\ input(Data, fs, k, wraps).res = "ok"
    THEN <<cwd', curr'>>
    ELSE loaded

Turn(k, wraps) ==
    /\ pc = "input"
    /\ Pressed(k)
    /\ Becomes(run(input(Data, fs, k, wraps)))
    /\ entered' = Entered(k)
    /\ loaded' = Loaded(k, wraps)

OpenInput(K) == mode = "OpenDir" /\ \E k \in K : Turn(k, TRUE)

CurrInput(K) == mode = "OpenFile" /\ \E k \in K : Turn(k, TRUE)

InputInput(K) == mode = "Input" /\ \E k \in K : Turn(k, TRUE)

SelectInput(K) == mode = "Selection" /\ \E k \in K : Turn(k, TRUE)

SearchInput(K) == mode = "Search" /\ \E k \in K : Turn(k, TRUE)

HistoryInput(K) == mode = "History" /\ \E k \in K : Turn(k, TRUE)

CommandInput(K) ==
    mode = "Command" /\ \E k \in K : \E wraps \in BOOLEAN : Turn(k, wraps)

\* Data::new, with the given page files on disk
Started(files) ==
    /\ mode = "Command"
    /\ text = textarea(<<>>, DefaultSearch)
    /\ cwd = StartDir
    /\ tot = 1
    /\ curr = <<"0", "0", "0">>
    /\ srch = DefaultSearch
    /\ msg = ""
    /\ fs = files
    /\ pc = "input"
    /\ entered = <<>>
    /\ loaded = <<>>

Init == Started(InitFiles)

(***************************************************************************)
(* Spec: the seven modes, the three prompts, page navigation and reflow.   *)
(* The keys are those of the handlers' match arms, two characters per      *)
(* prompt (one accepted, one not) and a key no arm matches ("z").          *)
(***************************************************************************)
DirKeys == {"Esc", "Enter", "b", "c"}

IdKeys == {"Esc", "Enter", "1", "z"}

PatKeys == {"Esc", "Enter", "S-Enter", "a", "("}

TextKeys == {"Esc"}

SelKeys == {"Esc", "x", "z"}

HistKeys == {"Esc", "u", "r"}

CmdKeys == {"q", "o", "f", "i", "h", "/", "*", "n", "p", "l", SP, "Esc", "z"}

Next ==
    \/ OpenInput(DirKeys)
    \/ CurrInput(IdKeys)
    \/ InputInput(TextKeys)
    \/ SelectInput(SelKeys)
    \/ SearchInput(PatKeys)
    \/ HistoryInput(HistKeys)
    \/ CommandInput(CmdKeys)

Spec == Init /\ [][Next]_vars

(***************************************************************************)
(* SpecSave: the same program with the save key pressed as well, and the   *)
(* prompts fed what makes them fail.                                       *)
(***************************************************************************)
SaveCmdKeys == {"n", "p", "C-s", "f", "o", "/", "q", "Esc"}

SaveDirKeys == {"Esc", "Enter", "c"}

SavePatKeys == {"Esc", "Enter", "S-Enter", "("}

NextSave ==
    \/ CommandInput(SaveCmdKeys)
    \/ CurrInput(IdKeys)
    \/ OpenInput(SaveDirKeys)
    \/ SearchInput(SavePatKeys)

SpecSave == Init /\ [][NextSave]_vars

(***************************************************************************)
(* SpecDisk: page 000 holds any bytes up to MaxFile of them; pages are     *)
(* loaded and saved from Command mode.                                     *)
(***************************************************************************)
MaxFile == 4

DiskChars == {"a", NL, CR}

Contents == UNION {[1..n -> DiskChars] : n \in 0..MaxFile}

DiskFiles(c) == [InitFiles EXCEPT ![Path(StartDir, PageName(0))] = c]

InitDisk == \E c \in Contents : Started(DiskFiles(c))

DiskKeys == {"n", "p", "C-s", "q"}

NextDisk == CommandInput(DiskKeys)

SpecDisk == InitDisk /\ [][NextDisk]_vars

(***************************************************************************)
(* SpecEdit: the document is edited: cursor movement, selection, cut,      *)
(* insertion, undo and redo, on the pages of the start directory.          *)
(***************************************************************************)
MoveKeys == {"w", "Up"}

EditCmdKeys == {"i", "h", "#", SP, "n", "p", "q", "Esc"} \cup MoveKeys

EditSelKeys == {"Esc", "x", "z"} \cup MoveKeys

EditTextKeys == {"Esc", "a"}

NextEdit ==
    \/ CommandInput(EditCmdKeys)
    \/ InputInput(EditTextKeys)
    \/ SelectInput(EditSelKeys)
    \/ HistoryInput(HistKeys)

SpecEdit == Init /\ [][NextEdit]_vars

(***************************************************************************)
(* SpecFlow: pages are loaded from Command mode and from the two prompts,  *)
(* marked with "###", reflowed, selected in, and the history is walked.    *)
(***************************************************************************)
MaxBuf == 6

FlowCmdKeys == {"n", "p", "l", "h", "f", "o", SP, "q"}

FlowPromptKeys == {"Enter", "Esc"}

\* the mark is inserted while the document is no longer than MaxBuf
MarkInput == Len(JoinLines(text.lines)) <= MaxBuf /\ CommandInput({"#"})

NextFlow ==
    \/ CommandInput(FlowCmdKeys)
    \/ MarkInput
    \/ CurrInput(FlowPromptKeys)
    \/ OpenInput(FlowPromptKeys)
    \/ SelectInput({"Esc"})
    \/ HistoryInput(HistKeys)

SpecFlow == Init /\ [][NextFlow]_vars

(***************************************************************************)
(* SpecReflow: page 000 holds any text of letters, blanks and line breaks  *)
(* up to MaxBuf characters; pages are loaded and reflowed.                 *)
(***************************************************************************)
FlowChars == {"a", SP, NL}

FlowContents == UNION {[1..n -> FlowChars] : n \in 0..MaxBuf}

InitReflow == \E c \in FlowContents : Started(DiskFiles(c))

ReflowKeys == {"n", "p", "l", "q"}

NextReflow == CommandInput(ReflowKeys)

SpecReflow == InitReflow /\ [][NextReflow]_vars

(***************************************************************************)
(* Properties.                                                             *)
(***************************************************************************)
\* the keys whose dispatch can return an error
ErrKeys == {"n", "p", "C-s", "Enter", "S-Enter"}

\* the data a turn leaves alone when it only touches the mode and the message
SameDocument == UNCHANGED <<text, cwd, tot, curr, srch, fs>>

Overflows(k) ==
    /\ mode = "Command"
    /\ \/ k = "n" /\ ParseU32(curr) = U32MaxDigits
       \/ k = "p" /\ ParseU32(curr) = Zero

\* C2: a missing page file, a page id that is no number and a search text
\* that does not compile never end the loop: the loop ends at Quit only, and
\* where the process aborts, it is on the overflow of the page id and on
\* nothing else.
FailuresNeverEndLoop ==
    [][/\ pc' = "panic" => \E k \in {"n", "p"} : Overflows(k) /\ Turn(k, FALSE)
       /\ pc' = "done" => mode' = "Quit"]_vars

\* the dispatch of key k returns an error
Fails(k, wraps) == input(Data, fs, k, wraps).res \in {"io", "parse", "regex"}

\* C3: a turn whose dispatch returns an error leaves the mode as it was,
\* shows a message and goes on; so does 'n' at page 002 of 000..002.
ErrorKeepsMode ==
    [][/\ \A k \in ErrKeys : \A wraps \in BOOLEAN :
              (Turn(k, wraps) /\ Fails(k, wraps))
                  => mode' = mode /\ msg' # "" /\ pc' = "input"
       /\ (/\ mode = "Command"
           /\ cwd = StartDir
           /\ curr = PageName(2)
           /\ Turn("n", TRUE))
              => mode' = "Command" /\ msg' # "" /\ pc' = "input"]_vars

\* C3 witness: Enter failed in the directory prompt, which stays open with
\* the error shown.
OpenDirShowsError == mode = "OpenDir" /\ msg = ErrText("io") /\ pc = "input"

\* C4: in a directory that exists and with a three-digit page id, the save key writes the document's lines to
\* the page's file whether or not the file existed, reports nothing and
\* leaves the document alone.
SaveAlwaysWrites ==
    [][(/\ mode = "Command"
        /\ CountFiles(fs, cwd) # -1
        /\ Len(curr) = 3
        /\ ParseU32(curr) # ParseErr
        /\ Turn("C-s", TRUE))
           => /\ Path(cwd, Fmt03(ParseU32(curr))) \in DOMAIN fs'
              /\ fs'[Path(cwd, Fmt03(ParseU32(curr)))] = JoinLines(text.lines)
              /\ text' = text
              /\ msg' = ""]_vars

\* the file of the current page
CurrPath == Path(cwd, curr)

\* the document is the page as load() builds it from its file
AsLoaded ==
    /\ CurrPath \in DOMAIN fs
    /\ text.lines = NewTextArea(LinesOf(fs[CurrPath])).lines

\* ls without its last line when that line is empty
DropFinalEmpty(ls) ==
    IF ls # <<>> /\ ls[Len(ls)] = <<>> THEN SubSeq(ls, 1, Len(ls) - 1) ELSE ls

\* C5: saving a page right after it was loaded leaves its file with the
\* same lines, a final empty line at most being dropped (the normalisation
\* of the trailing line break), and leaves the other files as they were.
LoadSaveKeepsLines ==
    [][(mode = "Command" /\ AsLoaded /\ Turn("C-s", TRUE))
           => /\ DOMAIN fs' = DOMAIN fs
              /\ \A p \in DOMAIN fs \ {CurrPath} : fs'[p] = fs[p]
              /\ LinesOf(fs'[CurrPath])
                     \in {LinesOf(fs[CurrPath]), DropFinalEmpty(LinesOf(fs[CurrPath]))}
              /\ msg' = ""]_vars

\* the page after (k = "n") or before (k = "p") the current one, when both
\* it and the current page have a file: the current page is interior
Neighbour(k) ==
    LET c == ParseU32(curr)
    IN  IF c = ParseErr \/ Overflows(k) \/ Path(cwd, Fmt03(c)) \notin DOMAIN fs
        THEN ParseErr
        ELSE LET x == IF k = "n" THEN Inc(c) ELSE Dec(c)
             IN  IF Path(cwd, Fmt03(x)) \in DOMAIN fs THEN x ELSE ParseErr

\* C6: between two pages that both have a file, next() and prev() each end
\* on the neighbour, with the document holding that page's file and the
\* files untouched, so that next() then prev() ends where it began.
NextPrevShowNeighbour ==
    [][\A k \in {"n", "p"} : \A wraps \in BOOLEAN :
           (mode = "Command" /\ Neighbour(k) # ParseErr /\ Turn(k, wraps))
               => /\ curr' = Fmt03(Neighbour(k))
                  /\ text'.lines =
                         NewTextArea(LinesOf(fs[Path(cwd, Fmt03(Neighbour(k)))])).lines
                  /\ fs' = fs
                  /\ pc' = "input"]_vars

\* C7: prev() at page 0 and next() at the last page id neither abort the
\* process nor wrap the page id around.
PageIdNeverWraps ==
    [][\A k \in {"n", "p"} : \A wraps \in BOOLEAN :
           (Overflows(k) /\ Turn(k, wraps))
               => /\ pc' # "panic"
                  /\ ParseU32(curr') # (IF k = "p" THEN U32MaxDigits ELSE Zero)]_vars

\* the page id that key k makes the handler pass to load(), or ParseErr
\* when the handler does not get to load()
Requested(k, wraps) ==
    LET c == ParseU32(curr)
    IN  IF c = ParseErr THEN ParseErr
        ELSE IF mode = "OpenFile" /\ k = "Enter" THEN c
        ELSE IF mode = "Command" /\ k = "n"
             THEN (IF c # U32MaxDigits THEN Inc(c) ELSE IF wraps THEN Zero ELSE ParseErr)
        ELSE IF mode = "Command" /\ k = "p"
             THEN (IF c # Zero THEN Dec(c) ELSE IF wraps THEN U32MaxDigits ELSE ParseErr)
        ELSE ParseErr

\* C8: when load(id) fails for want of the file, the page id is the
\* requested one in three digits at least, and the document (lines, cursor,
\* selection, history), the directory, the page count and the files are as
\* before.
FailedLoadSetsPageIdOnly ==
    [][\A k \in {"n", "p", "Enter"} : \A wraps \in BOOLEAN :
           (/\ Requested(k, wraps) # ParseErr
            /\ Path(cwd, Fmt03(Requested(k, wraps))) \notin DOMAIN fs
            /\ Turn(k, wraps))
               => /\ curr' = Fmt03(Requested(k, wraps))
                  /\ Len(curr') >= 3
                  /\ UNCHANGED <<text, cwd, tot, fs>>]_vars

\* C8 witness: page 003 was asked for and is missing, and the document
\* still has its edit and its selection.
MissingPageKeptDocument ==
    /\ curr = PageName(3)
    /\ msg = ErrText("io")
    /\ text.index > 0
    /\ text.sel # NoSel
    /\ text.lines # NewTextArea(<<>>).lines

\* C9: Esc in the page prompt (in the directory prompt) leaves the page id
\* (the directory) as it was when the prompt was entered.
EscDiscardsEntry ==
    [][/\ (mode = "OpenFile" /\ Turn("Esc", TRUE)) => curr' = entered
       /\ (mode = "OpenDir" /\ Turn("Esc", TRUE)) => cwd' = entered]_vars

\* C10: in Command mode no selection is active.
NoSelectionInCommand == mode = "Command" => text.sel = NoSel

\* the document once the text of the search prompt is its pattern
Searching == SetPattern(text, srch)

\* no match of the pattern after the cursor: none in the rest of its line
\* and none in the lines below
NoMatchAfter(t) ==
    /\ AsPos(Row(t), IF Col(t) + 1 < Len(LineAt(t, Row(t)))
                     THEN FindAt(t.pat, LineAt(t, Row(t)), Col(t) + 1) ELSE -1) = NoSel
    /\ Row(t) + 1 < NRows(t) => RowScan(t, Row(t) + 1, 1, NRows(t) - 1, FALSE) = NoSel

\* no match before the cursor: none in its line before it and none in the
\* lines above
NoMatchBefore(t) ==
    /\ AsPos(Row(t), IF Col(t) > 0 /\ Col(t) - 1 < Len(LineAt(t, Row(t)))
                     THEN FindLast(t.pat, LineAt(t, Row(t)), Col(t) - 1) ELSE -1) = NoSel
    /\ Row(t) > 0 => RowScan(t, Row(t) - 1, -1, 0, TRUE) = NoSel

\* C11: in Search mode, Enter with no match after the cursor (Shift+Enter
\* with none before it) leaves the cursor where it is, reports a message
\* and keeps the mode.
SearchNeverWraps ==
    [][/\ (/\ mode = "Search"
           /\ PatternOk(text, srch)
           /\ srch # <<>>
           /\ NoMatchAfter(Searching)
           /\ Turn("Enter", TRUE))
              => text'.cursor = text.cursor /\ msg' # "" /\ mode' = "Search"
       /\ (/\ mode = "Search"
           /\ PatternOk(text, srch)
           /\ srch # <<>>
           /\ NoMatchBefore(Searching)
           /\ Turn("S-Enter", TRUE))
              => text'.cursor = text.cursor /\ msg' # "" /\ mode' = "Search"]_vars

\* C12: the pattern of the document is the startup default until Enter or
\* Shift+Enter in Search mode compiles another one: no other turn changes
\* it, so text typed into the search prompt and left with Esc never becomes
\* the pattern, page loads and reflows included.
PatternChangesOnlyOnEnter ==
    [][text'.pat # text.pat
           => /\ mode = "Search"
              /\ \E k \in {"Enter", "S-Enter"} : Turn(k, TRUE)
              /\ text'.pat = srch]_vars

\* the document has a selection that is not empty
Selected == text.sel # NoSel /\ text.sel # text.cursor

\* the text of the document without the selected span
WithoutSelection ==
    LET flat == JoinLines(text.lines)
        a == OffsetOf(text.lines, IF PosLeq(text.sel, text.cursor) THEN text.sel ELSE text.cursor)
        b == OffsetOf(text.lines, IF PosLeq(text.sel, text.cursor) THEN text.cursor ELSE text.sel)
    IN  SubSeq(flat, 1, a) \o SubSeq(flat, b + 1, Len(flat))

\* C13: cutting a selection ends in Command mode with the span removed and
\* one more undo entry, which holds the content before and after the cut;
\* undo in History mode gives back the content before the last edit and
\* redo the content after it; with nothing to undo (to redo) the document
\* is unchanged and no error is reported.
CutUndoRedo ==
    [][/\ (mode = "Selection" /\ Selected /\ Turn("x", TRUE))
              => /\ mode' = "Command"
                 /\ JoinLines(text'.lines) = WithoutSelection
                 /\ text'.sel = NoSel
                 /\ text'.index = text.index + 1
                 /\ Len(text'.edits) = text'.index
                 /\ text'.edits[text'.index].before.lines = text.lines
                 /\ text'.edits[text'.index].after.lines = text'.lines
       /\ (mode = "History" /\ Turn("u", TRUE))
              => /\ msg' = "" /\ pc' = "input" /\ mode' = "History"
                 /\ text'.edits = text.edits
                 /\ IF text.index = 0 THEN text' = text
                    ELSE /\ text'.lines = text.edits[text.index].before.lines
                         /\ text'.index = text.index - 1
       /\ (mode = "History" /\ Turn("r", TRUE))
              => /\ msg' = "" /\ pc' = "input" /\ mode' = "History"
                 /\ text'.edits = text.edits
                 /\ IF text.index = Len(text.edits) THEN text' = text
                    ELSE /\ text'.lines = text.edits[text.index + 1].after.lines
                         /\ text'.index = text.index + 1]_vars

\* C13 witness: in History mode a cut was undone: the document holds the
\* content before the cut, which is longer than the content after it.
CutUndone ==
    /\ mode = "History"
    /\ text.index = 0
    /\ Len(text.edits) = 1
    /\ text.lines = text.edits[1].before.lines
    /\ Len(JoinLines(text.edits[1].after.lines)) < Len(JoinLines(text.lines))

\* key k asks for a page load or for a reflow
Replaces(k) ==
    \/ mode = "Command" /\ k \in {"n", "p", "l"}
    \/ mode \in {"OpenFile", "OpenDir"} /\ k = "Enter"

\* C14: after a successful page load (n, p, Enter in the two prompts) and
\* after a reflow (l) the document is a new one: no undo or redo entry, no
\* selection, and undo and redo leave it as it is.
ReplacedWholesale ==
    [][\A k \in {"n", "p", "l", "Enter"} : \A wraps \in BOOLEAN :
           (Replaces(k) /\ input(Data, fs, k, wraps).res = "ok" /\ Turn(k, wraps))
               => /\ text'.edits = <<>>
                  /\ text'.index = 0
                  /\ text'.sel = NoSel
                  /\ Undo(text') = text'
                  /\ Redo(text') = text']_vars

\* C14 witness: the mark "###" is in a document without history: it was
\* inserted, and a reflow replaced the document afterwards.
MarkedThenReflowed ==
    /\ mode = "Command"
    /\ text.edits = <<>>
    /\ \E r \in 1..Len(text.lines) : \E i \in 1..Len(text.lines[r]) : text.lines[r][i] = "#"

\* the lines a reflow makes of the lines ls
Reflowed(ls) == split_long_lines([Data EXCEPT !.text = NewTextArea(ls)], fs).d.text.lines

\* C15: a reflow of a reflowed document changes no line.
ReflowIdempotent ==
    [][(mode = "Command" /\ Turn("l", TRUE) /\ pc' = "input")
           => Reflowed(text'.lines) = text'.lines]_vars

\* position i of s lies in a run of MinRun or more whitespace characters
\* other than line breaks
InLongRun(s, i) ==
    \E a \in 1..i : \E b \in i..Len(s) :
        /\ b - a + 1 >= MinRun
        /\ \A j \in a..b : Hws(s[j])

\* s with every such run, taken whole, replaced by one line break and all
\* other characters kept
RECURSIVE RunsBroken(_, _)
RunsBroken(s, i) ==
    IF i > Len(s) THEN <<>>
    ELSE IF ~InLongRun(s, i) THEN <<s[i]>> \o RunsBroken(s, i + 1)
    ELSE IF i > 1 /\ InLongRun(s, i - 1) THEN RunsBroken(s, i + 1)
    ELSE <<NL>> \o RunsBroken(s, i + 1)

\* C16: a reflow gives the text of the document with every maximal run of
\* three or more blanks replaced by one line break and every other
\* character, line breaks included, kept; the mode, the page id, the
\* directory and the files are unchanged.
ReflowBreaksLongRuns ==
    [][(mode = "Command" /\ Turn("l", TRUE) /\ pc' = "input")
           => /\ JoinLines(text'.lines) = RunsBroken(JoinLines(text.lines), 1)
              /\ UNCHANGED <<mode, curr, cwd, tot, fs>>]_vars

\* the data after the turn
DataNext ==
    [mode |-> mode', text |-> text', cwd |-> cwd', tot |-> tot',
     curr |-> curr', srch |-> srch', msg |-> msg']

\* C17: the handler of Quit mode changes nothing whatever the event, the
\* loop stops on the turn that sets the mode to Quit, and after Esc the
\* loop goes on in a state from which 'q' ends it in Quit.
QuitIsTerminal ==
    [][/\ \A k \in CmdKeys : quit_input(Data, fs, k) = Outcome(Data, fs, "ok")
       /\ mode' = "Quit" <=> pc' = "done"
       /\ Turn("Esc", TRUE)
              => /\ pc' = "input"
                 /\ run(input(DataNext, fs', "q", TRUE)).d.mode = "Quit"
                 /\ run(input(DataNext, fs', "q", TRUE)).pc = "done"]_vars

\* C18: once a page has been loaded, a save that writes a file is
\* dispatched with the directory and the page id of the last successful
\* load, so that a file is only ever written with the document that was
\* loaded from it.
SaveTargetsLoadedPage ==
    [][(/\ mode = "Command"
        /\ loaded # <<>>
        /\ ParseU32(curr) # ParseErr
        /\ Turn("C-s", TRUE)
        /\ fs' # fs)
           => loaded = <<cwd, Fmt03(ParseU32(curr))>>]_vars

\* C19: where the render step draws the progress gauge (outside the three
\* prompts, with no message to show, the loop not left), the page id is the
\* text of a 32-bit unsigned number.
GaugePageIdParses ==
    (/\ mode \notin {"OpenDir", "OpenFile", "Search"}
     /\ msg = ""
     /\ pc # "done")
        => ParseU32(curr) # ParseErr

\* C20: on a three-digit page id, the message at the next render is the
\* error text when the dispatch returned an error, the confirmation set by '*' in Command mode
\* when that key was handled, and empty after any other successful turn.
MessageReflectsLastTurn ==
    [][\A k \in CmdKeys \cup ErrKeys : \A wraps \in BOOLEAN :
           (Len(curr) = 3 /\ Turn(k, wraps) /\ pc' # "panic")
               => msg' = (IF Fails(k, wraps) THEN ErrText(input(Data, fs, k, wraps).res)
                          ELSE IF mode = "Command" /\ k = "*" THEN CopiedMsg
                          ELSE "")]_vars

====
